---------------------------- MODULE Spec2Model ----------------------------
(***************************************************************************)
(* Verification model of the map-marker server of src/: the Web-Mercator  *)
(* tile math and grid clusterer (utils.py), the tile and viewport          *)
(* handlers, the pre-warm thread and the supervisor (main.py), and the     *)
(* precomputer (precompute_tiles.py), over a shared key/value cache        *)
(* (cache.py).                                                             *)
(*                                                                         *)
(* Coordinates.  TLA+ has no floating point, so positions are integers on  *)
(* the Web-Mercator plane: a longitude is (lon + 180) / 360 * World and a  *)
(* latitude is its Mercator northing measured from the southern edge of    *)
(* the square, World * (1 - (1 - ln(tan + sec) / pi) / 2).  Both maps are  *)
(* strictly increasing, so every comparison of the source (bbox filters,   *)
(* min/max, tile membership) is preserved, tile_to_bbox becomes linear and *)
(* the tile boundaries are lattice points.  Inside a tile the grid index   *)
(* of the clusterer is taken in these units: the first and last cell       *)
(* boundaries (index 0 at min, index = resolution at max) are exact, the   *)
(* interior ones are moved by the change of variable.                      *)
(*                                                                         *)
(* Data frames.  A data frame is a sequence of row blocks                  *)
(* [id, latitude, longitude, rows]: `rows` consecutive rows at the same    *)
(* position, with ids id, id+1, ..., id+rows-1.  A block of one row is a   *)
(* plain row; larger blocks let the 500-row head() of the clusterer be     *)
(* exercised with its real limit.                                          *)
(*                                                                         *)
(* Cache.  The two clients of cache.py are taken connected to one Redis    *)
(* server, which every process shares (the mock clients are dictionaries   *)
(* private to each client and keep no TTL).  precompute_tiles.py imports   *)
(* from cache.py the name redis_client, which cache.py does not define;    *)
(* the model takes the modules as loaded, precompute_all_tiles being       *)
(* always handed redis_client_sync.                                        *)
(***************************************************************************)
EXTENDS Integers, Sequences, FiniteSets, TLC

VARIABLES
    fn,                 \* pure-function harness: the function last applied
    arg,                \* its arguments
    ret,                \* its result
    db,                 \* the properties table of the database
    cache,              \* the remote cache: key -> [value, ttl]
    faults,             \* operations that have raised so far
    PROPERTIES_DF,      \* per process: the point store, or None before the load
    db_loads,           \* per process: executions of load_db_to_memory_sync
    PRECOMPUTE_STATUS,  \* per process: the status dict of the precompute
    life,               \* per process: where lifespan() is
    warm,               \* per process: the pre-warm thread
    pre,                \* per process: the background precompute thread
    h,                  \* per caller: the request handler (get_tile / get_markers) in progress
    prev,               \* the get_tile call that completed last
    calls               \* requests the client has been answered

(***************************************************************************)
(* Bounds of the model                                                     *)
(***************************************************************************)
MaxBlocks == 2          \* longest data frame (in row blocks) given to the clusterer
NumCallers == 2         \* request handlers running concurrently
NumProcs == 2           \* server processes sharing the cache
MaxCalls == 2           \* requests a client sends one after the other
PipelineRows == 1001    \* rows, one per zoom-14 tile, of the table that fills the pipeline
MaxFaults == 1          \* cache operations and compute tasks that raise in one run

(***************************************************************************)
(* Arithmetic helpers                                                      *)
(***************************************************************************)
Min(a, b) == IF a <= b THEN a ELSE b
Max(a, b) == IF a >= b THEN a ELSE b

\* Python int(a / b) and polars cast(Int32): truncation toward zero (b > 0).
TruncDiv(a, b) == IF a >= 0 THEN a \div b ELSE -((-a) \div b)

\* Python math.floor / polars .floor() of a / b (b > 0).
FloorDiv(a, b) == a \div b

RECURSIVE SumSeq(_)
SumSeq(s) == IF s = <<>> THEN 0 ELSE s[1] + SumSeq(Tail(s))

RECURSIVE Concat(_)
Concat(ss) == IF ss = <<>> THEN <<>> ELSE ss[1] \o Concat(Tail(ss))

\* Number of rows of a data frame: len(df).
Rows(df) == SumSeq([i \in 1..Len(df) |-> df[i].rows])

(***************************************************************************)
(* utils.py: tile math                                                     *)
(***************************************************************************)
\* Side of the Web-Mercator square in model units: 4 units per zoom-14 tile.
World == 2^16

\* n = 2.0 ** zoom
TilesPerAxis(zoom) == 2^zoom

\* tile_to_bbox(x, y, zoom) = <<lat_min, lat_max, lon_min, lon_max>>
tile_to_bbox(x, y, zoom) ==
    LET n == TilesPerAxis(zoom) IN
    << World - (((y + 1) * World) \div n),
       World - ((y * World) \div n),
       (x * World) \div n,
       ((x + 1) * World) \div n >>

\* lat_lon_to_tile(lat, lon) of bounds_to_tiles, for zoom: <<x, y>>.  int()
\* truncates toward zero, so a position north of the square (negative
\* Mercator y) is put in row 0.
lat_lon_to_tile(lat, lon, zoom) ==
    LET n == TilesPerAxis(zoom) IN
    << TruncDiv(lon * n, World), TruncDiv((World - lat) * n, World) >>

\* The default of the `limit` parameter of bounds_to_tiles.
TileLimit == 200

\* The loops with range(start_y, end_y): the last row is left out.
TileRectangleOpen(start_x, end_x, start_y, end_y) ==
    LET height == end_y - start_y
        width == end_x - start_x + 1
    IN  [k \in 1..Min(width * height, TileLimit) |->
            << start_x + ((k - 1) \div height), start_y + ((k - 1) % height) >>]

\* The nested loops of bounds_to_tiles: column by column, each column top
\* down, returning as soon as `limit` tiles are listed.
TileRectangle(start_x, end_x, start_y, end_y) ==
    LET height == end_y - start_y + 1
        width == end_x - start_x + 1
    IN  [k \in 1..Min(width * height, TileLimit) |->
            << start_x + ((k - 1) \div height), start_y + ((k - 1) % height) >>]

bounds_to_tiles(min_lat, max_lat, min_lon, max_lon, zoom) ==
    LET lo == lat_lon_to_tile(min_lat, min_lon, zoom)   \* (min_tile_x, max_tile_y)
        hi == lat_lon_to_tile(max_lat, max_lon, zoom)   \* (max_tile_x, min_tile_y)
        start_x == Min(lo[1], hi[1])
        end_x == Max(lo[1], hi[1])
        start_y == Min(hi[2], lo[2])
        end_y == Max(hi[2], lo[2])
    IN  TileRectangle(start_x, end_x, start_y, end_y)

(***************************************************************************)
(* utils.py: the clusterer                                                 *)
(***************************************************************************)
\* df.head(500)
HeadRows == 500

RECURSIVE head(_, _)
head(df, k) ==
    IF df = <<>> \/ k <= 0 THEN <<>>
    ELSE IF df[1].rows >= k THEN << [df[1] EXCEPT !.rows = k] >>
    ELSE << df[1] >> \o head(Tail(df), k - df[1].rows)

\* The resolution ladder of perform_clustering.
Resolution(zoom) ==
    IF zoom <= 6 THEN 3
    ELSE IF zoom <= 8 THEN 5
    ELSE IF zoom <= 10 THEN 7
    ELSE 10

\* ((col - min) / step).cast(Int32) with step = (max - min) / resolution
GridIdx(v, lo, hi, resolution) == TruncDiv((v - lo) * resolution, hi - lo)

Distinct(s) ==
    LET idx == [i \in 1..Len(s) |-> i]
        first == SelectSeq(idx, LAMBDA i : \A j \in 1..(i - 1) : s[j] # s[i])
    IN  [k \in 1..Len(first) |-> s[first[k]]]

\* The aggregation with the count taken over the distinct positions of the
\* group instead of its rows.
AggregateDistinct(cell, g) ==
    [ lat_idx   |-> cell[1],
      lon_idx   |-> cell[2],
      latitude  |-> SumSeq([i \in 1..Len(g) |-> g[i].latitude]) \div Len(g),
      longitude |-> SumSeq([i \in 1..Len(g) |-> g[i].longitude]) \div Len(g),
      count     |-> Len(g),
      id        |-> g[1].id ]

\* group_by(['lat_idx', 'lon_idx']).agg([...]) of one group g (a non-empty
\* data frame): mean position, pl.len(), first id.  margin (max), type_local
\* and address (first) follow the pattern of id and are left out.
Aggregate(cell, g) ==
    LET cnt == Rows(g) IN
    [ lat_idx   |-> cell[1],
      lon_idx   |-> cell[2],
      latitude  |-> SumSeq([i \in 1..Len(g) |-> g[i].latitude * g[i].rows]) \div cnt,
      longitude |-> SumSeq([i \in 1..Len(g) |-> g[i].longitude * g[i].rows]) \div cnt,
      count     |-> cnt,
      id        |-> g[1].id ]

\* perform_clustering(df, min_lat, max_lat, min_lon, max_lon, zoom).  The
\* groups are listed in order of first appearance.  Every caller passes the
\* bbox of a tile, which is never degenerate, so the 0.0001 replacement of a
\* zero lat_diff / lon_diff never applies.
perform_clustering(df, min_lat, max_lat, min_lon, max_lon, zoom) ==
    IF df = <<>> THEN <<>>
    ELSE IF zoom >= 14 THEN head(df, HeadRows)
    ELSE
        LET resolution == Resolution(zoom)
            cellOf(b) == << GridIdx(b.latitude, min_lat, max_lat, resolution),
                            GridIdx(b.longitude, min_lon, max_lon, resolution) >>
            cells == Distinct([i \in 1..Len(df) |-> cellOf(df[i])])
            group(c) == SelectSeq(df, LAMBDA b : cellOf(b) = c)
        IN  [k \in 1..Len(cells) |-> Aggregate(cells[k], group(cells[k]))]

\* Number of points a record of a result stands for: the count of a cluster,
\* one per row for the plain rows returned at zoom >= 14.
PointsOf(r) == IF "count" \in DOMAIN r THEN r.count ELSE r.rows

CountSum(result) == SumSeq([i \in 1..Len(result) |-> PointsOf(result[i])])

\* df.filter(lat >= min_lat & lat <= max_lat & lon >= min_lon & lon <= max_lon)
filter_bbox(df, min_lat, max_lat, min_lon, max_lon) ==
    SelectSeq(df, LAMBDA b : /\ b.latitude >= min_lat
                             /\ b.latitude <= max_lat
                             /\ b.longitude >= min_lon
                             /\ b.longitude <= max_lon)


(***************************************************************************)
(* Positions used as inputs, in model units.  The zoom-6 tile (32, 22)     *)
(* spans longitudes 32768..33792 (0 to 5.625 degrees east) and latitudes   *)
(* 41984..43008 (45.09 to 48.92 degrees north).                            *)
(***************************************************************************)
Paris     == [latitude |-> 42988, longitude |-> 33196]   \* 48.85 N, 2.35 E
Paris2    == [latitude |-> 42991, longitude |-> 33198]   \* 48.86 N, 2.36 E
Marseille == [latitude |-> 41530, longitude |-> 33751]   \* 43.30 N, 5.40 E
Greenwich == [latitude |-> 42500, longitude |-> 32768]   \* 47.0 N, 0.0 E: on a tile edge at every zoom
EastEdge  == [latitude |-> 42700, longitude |-> 33792]   \* 47.8 N, 5.625 E: on a tile edge from zoom 6 on
Dunkerque == [latitude |-> 43700, longitude |-> 33325]   \* 51.4 N, 3.06 E: north of the 51 N line
Amiens    == [latitude |-> 43300, longitude |-> 33186]   \* 49.9 N, 2.30 E
Arctic    == [latitude |-> 65540, longitude |-> 33196]   \* 85.053 N: just north of the Mercator square

Sites == { Paris, Paris2, Marseille, Greenwich, EastEdge, Dunkerque, Amiens, Arctic }

\* The positions of the frames given to the clusterer: two that share a tile
\* up to zoom 13, two on tile edges, one apart.
ClusterSites == { Paris, Paris2, Greenwich, EastEdge, Dunkerque }

\* Sizes of the row blocks given to the clusterer.
RowCounts == { 1, 300, 600 }

\* The data frame of the positions ps[i] with ps[i][2] rows each; ids follow
\* the row order.
MkFrame(ps) ==
    [i \in 1..Len(ps) |-> [ id        |-> 1000 * i,
                            latitude  |-> ps[i][1].latitude,
                            longitude |-> ps[i][1].longitude,
                            rows      |-> ps[i][2] ]]

Frames(sites, maxLen) ==
    UNION { { MkFrame(ps) : ps \in [1..len -> sites \X RowCounts] } : len \in 0..maxLen }

\* z_min..z_max of the tile cache.
ZMin == 6
ZMax == 14
Zooms == ZMin..ZMax

\* Query rectangles <<min_lat, max_lat, min_lon, max_lon>>.
BoxParis  == << 42974, 43002, 33187, 33205 >>     \* 48.8..48.9 N, 2.3..2.4 E (scenario S1)
BoxFrance == << 40965, 43596, 31858, 34588 >>     \* 41..51 N, -5..10 E (scenario S3)
BoxEdge   == << 42400, 42800, 32768, 33792 >>     \* a rectangle whose sides lie on tile edges
BoxNorth  == << 43008, 43800, 33000, 33400 >>     \* 48.92..51.7 N
BoxArctic == << 65000, 65545, 33000, 33400 >>     \* reaches north of the Mercator square

BoxFlipped == << 42800, 42400, 32768, 33792 >>    \* BoxEdge with min_lat and max_lat exchanged

QueryBoxes == { BoxParis, BoxFrance, BoxEdge, BoxNorth, BoxArctic }

(***************************************************************************)
(* The point stores a process may load, and the requests of the model      *)
(***************************************************************************)
Row(i, s) == [id |-> i, latitude |-> s.latitude, longitude |-> s.longitude, rows |-> 1]

Datasets ==
    { << Row(1, Paris), Row(2, Paris2), Row(3, Marseille) >>,     \* the 3-point set of the scenarios
      << Row(1, Paris), Row(2, EastEdge) >>,                      \* with a point on a tile edge
      << Row(1, Amiens), Row(2, Dunkerque) >>,                        \* one tile, across the 51 N line
      << >> }                                                     \* an empty table

\* Python's None, and a value that is not None, as a sequence of no or one element.
None == << >>
Some(v) == << v >>

Procs == 1..NumProcs
Callers == 1..NumCallers

\* Path parameters of get_tile and query parameters of get_markers.
TileRequests ==
    { [op |-> "get_tile", z |-> 6, x |-> 32, y |-> 22],
      [op |-> "get_tile", z |-> 6, x |-> 32, y |-> 21],
      [op |-> "get_tile", z |-> 6, x |-> 32, y |-> 8000],
      [op |-> "get_tile", z |-> 5, x |-> 16, y |-> 11] }     \* below z_min: 40.98..48.92 N, 0..11.25 E

MarkerRequests ==
    { [op |-> "get_markers", box |-> BoxEdge, zoom |-> 6],
      [op |-> "get_markers", box |-> BoxNorth, zoom |-> 3],
      [op |-> "get_markers", box |-> BoxFlipped, zoom |-> 6] }

(***************************************************************************)
(* cache.py: the key/value store.  An entry keeps the TTL it was written   *)
(* with; expiry is not modelled.  Every operation of a client may raise    *)
(* (timeout, connection lost): the actions draw `ok` for it.               *)
(***************************************************************************)
\* f"tile:{z}:{x}:{y}"
TileKey(z, x, y) == << "tile", z, x, y >>

\* orjson.dumps / json.dumps and orjson.loads
dumps(result) == [json |-> result]
loads(value) == value.json

\* redis get: the value, or None
CacheGet(c, key) == IF key \in DOMAIN c THEN Some(c[key].value) ELSE None

\* A write that keeps what the key held and adds the new records to it, as
\* a list push would.
CacheSetexAppend(c, key, ttl, value) ==
    [k \in DOMAIN c \cup {key} |->
        IF k # key THEN c[k]
        ELSE [value |-> IF key \in DOMAIN c THEN dumps(loads(c[key].value) \o loads(value))
                        ELSE value,
              ttl   |-> ttl]]

\* redis setex(key, time, value)
CacheSetex(c, key, ttl, value) ==
    [k \in DOMAIN c \cup {key} |-> IF k = key THEN [value |-> value, ttl |-> ttl] ELSE c[k]]

\* The outcomes an operation that may raise can still have: TRUE for a
\* normal return, FALSE for an exception.
Oks == IF faults < MaxFaults THEN BOOLEAN ELSE { TRUE }
Count(ok) == IF ok THEN faults ELSE faults + 1

(***************************************************************************)
(* main.py: compute_tile_on_fly and the cache keys                         *)
(***************************************************************************)
\* math.sinh raises OverflowError beyond +-710.4758, that is when
\* |1 - 2k/n| > 226.151, for k = y or y + 1 in tile_to_bbox.
SinhOverflows(k, n) ==
    LET d == IF n - 2 * k >= 0 THEN n - 2 * k ELSE 2 * k - n
    IN  1000 * d > 226151 * n

tile_to_bbox_raises(x, y, zoom) ==
    \/ SinhOverflows(y + 1, TilesPerAxis(zoom))
    \/ SinhOverflows(y, TilesPerAxis(zoom))

\* compute_tile_on_fly(x, y, z) on the loaded store df
compute_tile_on_fly(df, x, y, z) ==
    LET b == tile_to_bbox(x, y, z)
    IN  perform_clustering(filter_bbox(df, b[1], b[2], b[3], b[4]), b[1], b[2], b[3], b[4], z)

\* get_cache_key: the rounding to 3 or 4 decimals is finer than the lattice of
\* the model, so it keeps the coordinates; int(zoom) is the zoom of the model.
get_cache_key(min_lat, max_lat, min_lon, max_lon, zoom) ==
    << "viewport", min_lat, max_lat, min_lon, max_lon, zoom >>

\* TTLs of the setex calls of main.py
TileTtl == 86400
ViewportTtl == 300

(***************************************************************************)
(* main.py: the request handlers.  A handler runs on the event loop and    *)
(* gives way at each await: one action per stretch between two awaits.     *)
(***************************************************************************)
NoCall == [key |-> << >>, cold |-> FALSE, outcome |-> "none", ret |-> << >>]

IdleHandler ==
    [ pc          |-> "idle",
      req         |-> [op |-> "none"],
      cold        |-> FALSE,      \* the cache lookup of get_tile missed
      hits        |-> 0,          \* values this request read from the cache
      tiles       |-> << >>,      \* tiles_to_fetch
      missing     |-> << >>,      \* missing_tiles, as indices of tiles_to_fetch
      computed    |-> << >>,      \* computed_results / result
      failed      |-> 0,          \* index in missing_tiles of the compute task that raised
      hit_results |-> << >>,      \* all_results after the loop over cached_values
      all_results |-> << >>,
      i           |-> 0,          \* next computed result to store
      wrote_view  |-> FALSE,      \* this request wrote its viewport key
      after       |-> NoCall,     \* the get_tile call completed last when this one began
      outcome     |-> "none",     \* "ok": a list was returned; "exception": the handler raised
      ret         |-> << >> ]

\* The process whose requests are modelled, and its point store.
Server == 1

\* get_properties_df without its test of PROPERTIES_DF: every call loads.
get_properties_df_always(p, loaded) ==
    /\ PROPERTIES_DF' = [PROPERTIES_DF EXCEPT ![p] = IF loaded THEN Some(db) ELSE None]
    /\ db_loads' = [db_loads EXCEPT ![p] = @ + 1]

\* get_properties_df(): load_db_to_memory_sync runs if PROPERTIES_DF is None;
\* what it raises (~loaded) leaves PROPERTIES_DF as it was.
get_properties_df(p, loaded) ==
    IF PROPERTIES_DF[p] = None
    THEN /\ PROPERTIES_DF' = [PROPERTIES_DF EXCEPT ![p] = IF loaded THEN Some(db) ELSE None]
         /\ db_loads' = [db_loads EXCEPT ![p] = @ + 1]
    ELSE UNCHANGED << PROPERTIES_DF, db_loads >>

\* The data frame get_properties_df() returns in process p when it returns.
StoreOf(p) == IF PROPERTIES_DF[p] = None THEN db ELSE PROPERTIES_DF[p][1]
Store == StoreOf(Server)

fnVars == << fn, arg, ret >>

\* No pure function has been applied.
InitFn ==
    /\ fn = "none"
    /\ arg = << >>
    /\ ret = << >>

\* The state of the background of a process: all of it but the table held in
\* memory and the count of its loads.
bgRest == << db, PRECOMPUTE_STATUS, life, warm, pre >>
bgVars == << bgRest, PROPERTIES_DF, db_loads >>

srvVars == << cache, faults, bgVars, h, prev, calls >>

vars == << fnVars, srvVars >>

\* The record kept of a completed get_tile call.
Call(req, cold, outcome, result) ==
    [key |-> TileKey(req.z, req.x, req.y), cold |-> cold, outcome |-> outcome, ret |-> result]

Finish(hc, result) == [hc EXCEPT !.pc = "done", !.outcome = "ok", !.ret = result]
Raise(hc) == [hc EXCEPT !.pc = "done", !.outcome = "exception"]

\* get_tile, lines 306-315: the cache lookup.
TileGet(c) ==
    \E req \in TileRequests, ok \in Oks :
        LET cached == IF ok THEN CacheGet(cache, TileKey(req.z, req.x, req.y)) ELSE None
            h0 == [IdleHandler EXCEPT !.req = req, !.after = prev]
        IN  /\ h[c].pc = "idle"
            /\ life[Server] = "serving"
            /\ h' = [h EXCEPT ![c] =
                        IF cached # None
                        THEN Finish([h0 EXCEPT !.hits = 1], loads(cached[1]))
                        ELSE [h0 EXCEPT !.pc = "tile_compute", !.cold = TRUE]]
            /\ prev' = IF cached # None THEN Call(req, FALSE, "ok", loads(cached[1])) ELSE prev
            /\ faults' = Count(ok)
            /\ UNCHANGED << fnVars, bgVars, cache, calls >>

\* get_tile, lines 318-319: compute_tile_on_fly in the worker pool; what it
\* raises leaves the handler: the overflow of tile_to_bbox, or any other
\* failure of the task (~ok).
TileCompute(c) ==
    \E ok \in Oks :
        LET req == h[c].req
            result == compute_tile_on_fly(Store, req.x, req.y, req.z)
        IN  /\ h[c].pc = "tile_compute"
            /\ h' = [h EXCEPT ![c] =
                        IF ~ok \/ tile_to_bbox_raises(req.x, req.y, req.z) THEN Raise(@)
                        ELSE [@ EXCEPT !.pc = "tile_store", !.computed = result]]
            /\ prev' = IF ~ok \/ tile_to_bbox_raises(req.x, req.y, req.z)
                        THEN Call(req, TRUE, "exception", << >>)
                        ELSE prev
            /\ get_properties_df(Server, ok)
            /\ faults' = Count(ok)
            /\ UNCHANGED << fnVars, bgRest, cache, calls >>

\* get_tile storing whatever it computed, without the test of line 323.
TileStoreUnguarded(c) ==
    \E ok \in Oks :
        LET req == h[c].req
            result == h[c].computed
        IN  /\ h[c].pc = "tile_store"
            /\ cache' = IF ok
                        THEN CacheSetex(cache, TileKey(req.z, req.x, req.y), TileTtl, dumps(result))
                        ELSE cache
            /\ h' = [h EXCEPT ![c] = Finish(@, result)]
            /\ prev' = Call(req, TRUE, "ok", result)
            /\ faults' = Count(ok)
            /\ UNCHANGED << fnVars, bgVars, calls >>

\* get_tile, lines 322-328: store a non-empty result, return it.
TileStore(c) ==
    \E ok \in Oks :
        LET req == h[c].req
            result == h[c].computed
        IN  /\ h[c].pc = "tile_store"
            /\ cache' = IF result # << >> /\ ok
                        THEN CacheSetex(cache, TileKey(req.z, req.x, req.y), TileTtl, dumps(result))
                        ELSE cache
            /\ h' = [h EXCEPT ![c] = Finish(@, result)]
            /\ prev' = Call(req, TRUE, "ok", result)
            /\ faults' = IF result = << >> THEN faults ELSE Count(ok)
            /\ UNCHANGED << fnVars, bgVars, calls >>

\* req_z = min(max(z, 6), 14)
Clamp(z) == Min(Max(z, ZMin), ZMax)

ViewportKey(req) == get_cache_key(req.box[1], req.box[2], req.box[3], req.box[4], req.zoom)

\* get_markers, lines 236-250: the viewport lookup, then the tile list.
MarkersGet(c) ==
    \E req \in MarkerRequests, ok \in Oks :
        LET cached_view == IF ok THEN CacheGet(cache, ViewportKey(req)) ELSE None
            req_z == Clamp(req.zoom)
            h0 == [IdleHandler EXCEPT !.req = req, !.after = prev]
        IN  /\ h[c].pc = "idle"
            /\ life[Server] = "serving"
            /\ h' = [h EXCEPT ![c] =
                        IF cached_view # None
                        THEN Finish([h0 EXCEPT !.hits = 1], loads(cached_view[1]))
                        ELSE [h0 EXCEPT !.pc = "mk_mget",
                                        !.tiles = bounds_to_tiles(req.box[1], req.box[2],
                                                                  req.box[3], req.box[4], req_z)]]
            /\ faults' = Count(ok)
            /\ UNCHANGED << fnVars, bgVars, cache, prev, calls >>

\* get_markers, lines 252-266: mget, then the split in hits and misses.
MarkersMget(c) ==
    \E ok \in Oks :
        LET req_z == Clamp(h[c].req.zoom)
            tiles == h[c].tiles
            cached_values == [i \in 1..Len(tiles) |->
                                IF ok THEN CacheGet(cache, TileKey(req_z, tiles[i][1], tiles[i][2]))
                                ELSE None]
            idx == [i \in 1..Len(tiles) |-> i]
            hit == SelectSeq(idx, LAMBDA i : cached_values[i] # None)
            all_results == Concat([k \in 1..Len(hit) |-> loads(cached_values[hit[k]][1])])
            missing == SelectSeq(idx, LAMBDA i : cached_values[i] = None)
        IN  /\ h[c].pc = "mk_mget"
            /\ h' = [h EXCEPT ![c] =
                        [@ EXCEPT !.pc = IF missing = << >> THEN "mk_viewport" ELSE "mk_compute",
                                  !.hits = Len(hit),
                                  !.missing = missing,
                                  !.hit_results = all_results,
                                  !.all_results = all_results]]
            /\ faults' = Count(ok)
            /\ UNCHANGED << fnVars, bgVars, cache, prev, calls >>

\* get_markers, lines 269-277 and 287-288: the compute tasks and gather.
\* gather raises what the first failing task raised; the except clause then
\* skips the loop over computed_results.
MarkersCompute(c) ==
    \E failed \in 0..(IF faults < MaxFaults THEN Len(h[c].missing) ELSE 0) :
        LET req_z == Clamp(h[c].req.zoom)
            tiles == h[c].tiles
            missing == h[c].missing
            computed == [k \in 1..Len(missing) |->
                            compute_tile_on_fly(Store, tiles[missing[k]][1], tiles[missing[k]][2], req_z)]
        IN  /\ h[c].pc = "mk_compute"
            /\ h' = [h EXCEPT ![c] =
                        IF failed # 0
                        THEN [@ EXCEPT !.pc = "mk_viewport", !.failed = failed]
                        ELSE [@ EXCEPT !.pc = "mk_store", !.computed = computed, !.i = 1]]
            /\ get_properties_df(Server, failed = 0)
            /\ faults' = Count(failed = 0)
            /\ UNCHANGED << fnVars, bgRest, cache, prev, calls >>

\* get_markers, lines 279-286: one turn of the loop over computed_results that
\* reaches a setex; empty results before it are passed without an await.
NextNonEmpty(computed, i) ==
    IF \E k \in i..Len(computed) : computed[k] # << >>
    THEN CHOOSE k \in i..Len(computed) :
            /\ computed[k] # << >>
            /\ \A j \in i..(k - 1) : computed[j] = << >>
    ELSE 0

MarkersStore(c) ==
    \E ok \in Oks :
        LET req_z == Clamp(h[c].req.zoom)
            k == NextNonEmpty(h[c].computed, h[c].i)
            t == h[c].tiles[h[c].missing[k]]
        IN  /\ h[c].pc = "mk_store"
            /\ IF k = 0
               THEN /\ h' = [h EXCEPT ![c].pc = "mk_viewport"]
                    /\ cache' = cache
               ELSE /\ h' = [h EXCEPT ![c] =
                                [@ EXCEPT !.all_results = @ \o h[c].computed[k], !.i = k + 1]]
                    /\ cache' = IF ok
                                THEN CacheSetex(cache, TileKey(req_z, t[1], t[2]), TileTtl,
                                                dumps(h[c].computed[k]))
                                ELSE cache
            /\ faults' = IF k = 0 THEN faults ELSE Count(ok)
            /\ UNCHANGED << fnVars, bgVars, prev, calls >>

\* get_markers, lines 291-297: store a non-empty response under the viewport
\* key, return it.
MarkersViewport(c) ==
    \E ok \in Oks :
        LET all_results == h[c].all_results
            write == all_results # << >> /\ ok
        IN  /\ h[c].pc = "mk_viewport"
            /\ cache' = IF write
                        THEN CacheSetex(cache, ViewportKey(h[c].req), ViewportTtl, dumps(all_results))
                        ELSE cache
            /\ h' = [h EXCEPT ![c] = Finish([@ EXCEPT !.wrote_view = write], all_results)]
            /\ faults' = IF all_results = << >> THEN faults ELSE Count(ok)
            /\ UNCHANGED << fnVars, bgVars, prev, calls >>

(***************************************************************************)
(* main.py: lifespan(), the supervisor of a process                        *)
(***************************************************************************)
IdleWarm == [pc |-> "off", todo |-> << >>, res |-> << >>]

IdlePre ==
    [ pc     |-> "off",
      zoom   |-> 0,         \* the zoom level the loop is at
      pipe   |-> << >>,     \* commands queued in the pipeline
      stored |-> 0 ]        \* tile entries this run has sent to the cache

\* The state after the modules are imported: nothing loaded, nothing cached.
\* The database holds one of the tables of the model.
InitWith(tables) ==
    /\ InitFn
    /\ db \in tables
    /\ cache = << >>
    /\ faults = 0
    /\ PROPERTIES_DF = [p \in Procs |-> None]
    /\ db_loads = [p \in Procs |-> 0]
    /\ PRECOMPUTE_STATUS = [p \in Procs |-> [running |-> FALSE, completed |-> FALSE, error |-> None]]
    /\ life = [p \in Procs |-> "start"]
    /\ warm = [p \in Procs |-> IdleWarm]
    /\ pre = [p \in Procs |-> IdlePre]
    /\ h = [c \in Callers |-> IdleHandler]
    /\ prev = NoCall
    /\ calls = 0

Init == InitWith(Datasets)

\* lifespan with a load that logs its failure and returns None instead of
\* raising: the startup goes on.
LifespanLoadLenient(p) ==
    \E loaded \in BOOLEAN :
        /\ life[p] = "start"
        /\ get_properties_df(p, loaded)
        /\ life' = [life EXCEPT ![p] = "loaded"]
        /\ UNCHANGED << fnVars, db, cache, faults, PRECOMPUTE_STATUS, warm, pre, h, prev, calls >>

\* lifespan, line 141: get_properties_df() loads the table; what
\* load_db_to_memory_sync raises (lines 76-78) ends the startup.
LifespanLoad(p) ==
    \E loaded \in BOOLEAN :
        /\ life[p] = "start"
        /\ get_properties_df(p, loaded)
        /\ life' = [life EXCEPT ![p] = IF PROPERTIES_DF'[p] # None THEN "loaded" ELSE "failed"]
        /\ UNCHANGED << fnVars, db, cache, faults, PRECOMPUTE_STATUS, warm, pre, h, prev, calls >>

\* France, as prewarm_initial_tiles and the precomputer take it: 41..51 N,
\* -5..10 E.
FranceMinLat == 40965
FranceMaxLat == 43596
FranceMinLon == 31858
FranceMaxLon == 34588

\* range(6, 9) of prewarm_initial_tiles
PrewarmZooms == << 6, 7, 8 >>

\* The (z, tx, ty) of the two loops of prewarm_initial_tiles, in order.  A
\* tile whose bbox holds no point of the store is passed without effect (no
\* value is cached under its key and its result is empty), so the list keeps
\* the others.
PrewarmTiles(df) ==
    LET ofZoom(z) ==
            LET tiles == bounds_to_tiles(FranceMinLat, FranceMaxLat, FranceMinLon, FranceMaxLon, z)
            IN  [k \in 1..Len(tiles) |-> << z, tiles[k][1], tiles[k][2] >>]
        all == Concat([k \in 1..Len(PrewarmZooms) |-> ofZoom(PrewarmZooms[k])])
    IN  SelectSeq(all, LAMBDA t : compute_tile_on_fly(df, t[2], t[3], t[1]) # << >>)

\* lifespan, lines 145-146: the pre-warm thread is started.
LifespanStartPrewarm(p) ==
    /\ life[p] = "loaded"
    /\ life' = [life EXCEPT ![p] = "prewarming"]
    /\ warm' = [warm EXCEPT ![p] = [IdleWarm EXCEPT !.pc = "start"]]
    /\ UNCHANGED << fnVars, db, cache, faults, PROPERTIES_DF, db_loads, PRECOMPUTE_STATUS, pre, h, prev, calls >>

\* lifespan starting the precompute thread (or skipping it) right after the
\* load, ahead of the pre-warm thread, which is then never started.
LifespanStartPrecomputeFirst(p) ==
    \E skip \in BOOLEAN :
        /\ life[p] = "loaded"
        /\ life' = [life EXCEPT ![p] = "serving"]
        /\ pre' = [pre EXCEPT ![p] = IF skip THEN @ ELSE [@ EXCEPT !.pc = "start"]]
        /\ UNCHANGED << fnVars, db, cache, faults, PROPERTIES_DF, db_loads, PRECOMPUTE_STATUS, warm, h, prev, calls >>

\* lifespan, lines 149-159: unless SKIP_PRECOMPUTE is set the precompute
\* thread is started; the process then serves requests.
LifespanStartPrecompute(p) ==
    \E skip \in BOOLEAN :
        /\ life[p] = "prewarming"
        /\ life' = [life EXCEPT ![p] = "serving"]
        /\ pre' = [pre EXCEPT ![p] = IF skip THEN @ ELSE [@ EXCEPT !.pc = "start"]]
        /\ UNCHANGED << fnVars, db, cache, faults, PROPERTIES_DF, db_loads, PRECOMPUTE_STATUS, warm, h, prev, calls >>

(***************************************************************************)
(* main.py: prewarm_initial_tiles, the pre-warm thread                     *)
(***************************************************************************)
\* TTL of the setex of prewarm_initial_tiles
PrewarmTtl == 86400

\* Lines 114-124: the thread asks for the store and lists the tiles of France
\* at zooms 6..8; what the load raises ends the thread.
PrewarmStart(p) ==
    \E loaded \in BOOLEAN :
        LET todo == PrewarmTiles(StoreOf(p)) IN
        /\ warm[p].pc = "start"
        /\ get_properties_df(p, loaded)
        /\ warm' = [warm EXCEPT ![p] =
                        [@ EXCEPT !.pc = IF PROPERTIES_DF'[p] = None \/ todo = << >> THEN "done" ELSE "get",
                                  !.todo = IF PROPERTIES_DF'[p] = None THEN << >> ELSE todo]]
        /\ UNCHANGED << fnVars, db, cache, faults, PRECOMPUTE_STATUS, life, pre, h, prev, calls >>

\* The end of one turn of the inner loop.
WarmNext(w) ==
    [w EXCEPT !.pc = IF Len(w.todo) = 1 THEN "done" ELSE "get", !.todo = Tail(w.todo), !.res = << >>]

\* Lines 125-129 and 131-132: look the tile up; when it is absent compute it.
\* What get or compute_tile_on_fly raises (~ok) is logged and the loop goes on.
PrewarmGet(p) ==
    \E ok \in Oks :
        LET t == warm[p].todo[1]
            cached == CacheGet(cache, TileKey(t[1], t[2], t[3]))
            res == compute_tile_on_fly(StoreOf(p), t[2], t[3], t[1])
        IN  /\ warm[p].pc = "get"
            /\ warm' = [warm EXCEPT ![p] =
                            IF ~ok \/ cached # None \/ res = << >>
                            THEN WarmNext(@)
                            ELSE [@ EXCEPT !.pc = "set", !.res = res]]
            /\ IF ok /\ cached = None
               THEN get_properties_df(p, TRUE)
               ELSE UNCHANGED << PROPERTIES_DF, db_loads >>
            /\ faults' = Count(ok)
            /\ UNCHANGED << fnVars, db, cache, PRECOMPUTE_STATUS, life, pre, h, prev, calls >>

\* Lines 130-132: store the result.
PrewarmSet(p) ==
    \E ok \in Oks :
        LET t == warm[p].todo[1] IN
        /\ warm[p].pc = "set"
        /\ cache' = IF ok
                    THEN CacheSetex(cache, TileKey(t[1], t[2], t[3]), PrewarmTtl, dumps(warm[p].res))
                    ELSE cache
        /\ warm' = [warm EXCEPT ![p] = WarmNext(@)]
        /\ faults' = Count(ok)
        /\ UNCHANGED << fnVars, db, PROPERTIES_DF, db_loads, PRECOMPUTE_STATUS, life, pre, h, prev, calls >>

(***************************************************************************)
(* precompute_tiles.py: precompute_all_tiles, and background_precompute of *)
(* main.py that runs it.  The cache client is the Redis client: the        *)
(* commands of a pipeline reach the cache when execute() is called.        *)
(***************************************************************************)
\* TTL of the setex of precompute_all_tiles ("30 days")
PrecomputeTtl == 2592000

\* The pipeline is executed every 1000 stored tiles (count % 1000 == 0).
FlushEvery == 1000

\* tile_x and tile_y of a row at a zoom: floor, not int().
TileOf(b, zoom) ==
    LET n == TilesPerAxis(zoom) IN
    << FloorDiv(b.longitude * n, World), FloorDiv((World - b.latitude) * n, World) >>

\* The rows the precomputer keeps: 41 <= latitude <= 51, -5 <= longitude <= 10.
InRegion(df) == filter_bbox(df, FranceMinLat, FranceMaxLat, FranceMinLon, FranceMaxLon)

\* The keys of tiles_dict at a zoom, in order of first appearance, and the
\* partition of one of them.
tiles_dict(df, zoom) ==
    LET rows == InRegion(df) IN
    Distinct([i \in 1..Len(rows) |-> TileOf(rows[i], zoom)])

tile_df(df, zoom, t) == SelectSeq(InRegion(df), LAMBDA b : TileOf(b, zoom) = t)

\* What the precomputer stores for tile t of a zoom: lines 94-95.
precompute_tile(df, zoom, t) ==
    LET b == tile_to_bbox(t[1], t[2], zoom)
    IN  perform_clustering(tile_df(df, zoom, t), b[1], b[2], b[3], b[4], zoom)

\* The loop over tiles_dict, lines 93-103, from the state st = [pipe, count,
\* sent]: `sent` are the commands the execute() calls inside the loop have
\* sent.
RECURSIVE LoopTiles(_, _, _, _)
LoopTiles(df, zoom, tiles, st) ==
    IF tiles = << >> THEN st
    ELSE
        LET t == tiles[1]
            result == precompute_tile(df, zoom, t)
            pipe == IF result # << >>
                    THEN Append(st.pipe, [ key   |-> TileKey(zoom, t[1], t[2]),
                                           ttl   |-> PrecomputeTtl,
                                           value |-> dumps(result) ])
                    ELSE st.pipe
            count == IF result # << >> THEN st.count + 1 ELSE st.count
            flush == count % FlushEvery = 0
        IN  LoopTiles(df, zoom, Tail(tiles),
                      [ pipe  |-> IF flush THEN << >> ELSE pipe,
                        count |-> count,
                        sent  |-> IF flush THEN st.sent \o pipe ELSE st.sent ])

\* pipe.execute(): the queued commands applied to the cache, in order.
RECURSIVE Execute(_, _)
Execute(c, pipe) ==
    IF pipe = << >> THEN c
    ELSE Execute(CacheSetex(c, pipe[1].key, pipe[1].ttl, pipe[1].value), Tail(pipe))

\* precompute_all_tiles(df, r_client) run alone from the cache c: the loop
\* over the zoom levels from `zoom`, every execute() succeeding.
RECURSIVE RunFrom(_, _, _)
RunFrom(c, df, zoom) ==
    IF df = << >> \/ zoom > ZMax THEN c
    ELSE LET run == LoopTiles(df, zoom, tiles_dict(df, zoom),
                              [pipe |-> << >>, count |-> 0, sent |-> << >>])
         IN  RunFrom(Execute(c, run.sent \o run.pipe), df, zoom + 1)

\* The cache one complete run leaves, started on an empty cache.
RunOnce(df) == RunFrom(<< >>, df, ZMin)

\* background_precompute, line 87.
BgStart(p) ==
    /\ pre[p].pc = "start"
    /\ PRECOMPUTE_STATUS' = [PRECOMPUTE_STATUS EXCEPT ![p].running = TRUE]
    /\ pre' = [pre EXCEPT ![p].pc = "load"]
    /\ UNCHANGED << fnVars, db, cache, faults, PROPERTIES_DF, db_loads, life, warm, h, prev, calls >>

\* background_precompute, lines 94-98, and precompute_all_tiles, lines 42-59:
\* load the table if it is not loaded, return at once on an empty table, else
\* open the pipeline and enter the loop.  The rows of the model have no null.
BgEnter(p) ==
    \E loaded \in BOOLEAN :
        /\ pre[p].pc = "load"
        /\ get_properties_df(p, loaded)
        /\ pre' = [pre EXCEPT ![p] =
                        IF PROPERTIES_DF'[p] = None THEN [@ EXCEPT !.pc = "except"]
                        ELSE IF StoreOf(p) = << >> THEN [@ EXCEPT !.pc = "completed"]
                        ELSE [@ EXCEPT !.pc = "zoom", !.zoom = ZMin, !.pipe = << >>]]
        /\ UNCHANGED << fnVars, db, cache, faults, PRECOMPUTE_STATUS, life, warm, h, prev, calls >>

\* precompute_all_tiles, lines 60-108: one turn of the loop over the zoom
\* levels.  Every table of the model gives fewer than 1000 tiles per zoom, so
\* the execute() that ends the level is the only one that reaches the cache
\* and all that precedes it is local to the thread; an execute() that raises
\* (~ok) ends precompute_all_tiles.
PrecomputeZoom(p) ==
    /\ pre[p].pc = "zoom"
    /\ \E ok \in Oks,
          run \in { LoopTiles(PROPERTIES_DF[p][1], pre[p].zoom,
                              tiles_dict(PROPERTIES_DF[p][1], pre[p].zoom),
                              [pipe |-> pre[p].pipe, count |-> 0, sent |-> << >>]) } :
        LET r == pre[p] IN
        /\ cache' = Execute(cache, IF ok THEN run.sent \o run.pipe ELSE run.sent)
        /\ pre' = [pre EXCEPT ![p] =
                    IF ~ok THEN [@ EXCEPT !.pc = "except", !.stored = @ + Len(run.sent)]
                    ELSE [@ EXCEPT !.pc = IF r.zoom = ZMax THEN "completed" ELSE "zoom",
                                   !.zoom = IF r.zoom = ZMax THEN @ ELSE @ + 1,
                                   !.pipe = << >>,
                                   !.stored = @ + Len(run.sent) + Len(run.pipe)]]
        /\ faults' = Count(ok)
        /\ UNCHANGED << fnVars, db, PROPERTIES_DF, db_loads, PRECOMPUTE_STATUS, life, warm, h, prev, calls >>

\* background_precompute, line 102.
BgCompleted(p) ==
    /\ pre[p].pc = "completed"
    /\ PRECOMPUTE_STATUS' = [PRECOMPUTE_STATUS EXCEPT ![p].completed = TRUE]
    /\ pre' = [pre EXCEPT ![p].pc = "finally"]
    /\ UNCHANGED << fnVars, db, cache, faults, PROPERTIES_DF, db_loads, life, warm, h, prev, calls >>

\* background_precompute whose except clause ends the thread: the finally
\* clause is not run.
BgExceptNoFinally(p) ==
    /\ pre[p].pc = "except"
    /\ PRECOMPUTE_STATUS' = [PRECOMPUTE_STATUS EXCEPT ![p].error = Some("e")]
    /\ pre' = [pre EXCEPT ![p].pc = "done"]
    /\ UNCHANGED << fnVars, db, cache, faults, PROPERTIES_DF, db_loads, life, warm, h, prev, calls >>

\* background_precompute, lines 104-108.
BgExcept(p) ==
    /\ pre[p].pc = "except"
    /\ PRECOMPUTE_STATUS' = [PRECOMPUTE_STATUS EXCEPT ![p].error = Some("e")]
    /\ pre' = [pre EXCEPT ![p].pc = "finally"]
    /\ UNCHANGED << fnVars, db, cache, faults, PROPERTIES_DF, db_loads, life, warm, h, prev, calls >>

\* background_precompute, lines 109-110.
BgFinally(p) ==
    /\ pre[p].pc = "finally"
    /\ PRECOMPUTE_STATUS' = [PRECOMPUTE_STATUS EXCEPT ![p].running = FALSE]
    /\ pre' = [pre EXCEPT ![p].pc = "done"]
    /\ UNCHANGED << fnVars, db, cache, faults, PROPERTIES_DF, db_loads, life, warm, h, prev, calls >>

\* The client has its answer and may send the next request.
Return(c) ==
    /\ h[c].pc = "done"
    /\ calls + 1 < MaxCalls
    /\ calls' = calls + 1
    /\ h' = [h EXCEPT ![c] = IdleHandler]
    /\ UNCHANGED << fnVars, cache, faults, bgVars, prev >>

(***************************************************************************)
(* Harness for the pure functions: each action applies one function of     *)
(* utils.py to inputs drawn from the bounded sets above.                   *)
(***************************************************************************)
\* perform_clustering on a data frame lying in the closed bbox of a tile, as
\* compute_tile_on_fly and the precomputer call it.
CallPerformClustering ==
    /\ fn = "none"
    /\ \E zoom \in Zooms, df \in Frames(ClusterSites, MaxBlocks), s \in ClusterSites :
        LET t == lat_lon_to_tile(s.latitude, s.longitude, zoom)
            b == tile_to_bbox(t[1], t[2], zoom)
            V == filter_bbox(df, b[1], b[2], b[3], b[4])
        IN  /\ fn' = "perform_clustering"
            /\ arg' = [df |-> V, bbox |-> b, zoom |-> zoom]
            /\ ret' = perform_clustering(V, b[1], b[2], b[3], b[4], zoom)
    /\ UNCHANGED srvVars

\* bounds_to_tiles on a query rectangle, with a point store to cover.
CallBoundsToTiles ==
    /\ fn = "none"
    /\ \E zoom \in Zooms, box \in QueryBoxes, store \in Frames(Sites, 1) :
        /\ fn' = "bounds_to_tiles"
        /\ arg' = [store |-> store, bbox |-> box, zoom |-> zoom]
        /\ ret' = bounds_to_tiles(box[1], box[2], box[3], box[4], zoom)
    /\ UNCHANGED srvVars

\* A table with one row in each of PipelineRows tiles of zoom 14, on a grid
\* 40 tiles wide inside the region the precomputer keeps.
PipelineTable ==
    [i \in 1..PipelineRows |->
        Row(i, [latitude |-> 41000 + 4 * ((i - 1) \div 40), longitude |-> 32000 + 4 * ((i - 1) % 40)])]

\* precompute_all_tiles, lines 56-60 and 84-92: the pipeline is opened and a
\* zoom level is partitioned.  The run is followed from the first level, or
\* from a later one (the levels before it have left the pipeline empty and
\* the count is reset at line 92); with PipelineTable it is followed over the
\* last three levels, where a tile holds 16 rows at most.
LoopBegin ==
    /\ fn = "none"
    /\ \E df \in (Datasets \ { << >> }) \cup { PipelineTable }, zoom \in ZMin..ZMax :
        /\ df = PipelineTable => zoom >= ZMax - 2
        /\ fn' = "precompute_all_tiles"
        /\ arg' = [df |-> df, zoom |-> zoom, tiles |-> tiles_dict(df, zoom), pc |-> "loop"]
        /\ ret' = [pipe |-> << >>, count |-> 0, sent |-> << >>, total |-> 0, flushed |-> << >>]
    /\ UNCHANGED srvVars

\* precompute_all_tiles, lines 93-103: one turn of the loop over tiles_dict.
LoopStep ==
    /\ fn = "precompute_all_tiles"
    /\ arg.pc = "loop"
    /\ arg.tiles # << >>
    /\ LET st == LoopTiles(arg.df, arg.zoom, << arg.tiles[1] >>,
                           [pipe |-> ret.pipe, count |-> ret.count, sent |-> << >>])
       IN  ret' = [ret EXCEPT !.pipe = st.pipe, !.count = st.count, !.sent = @ \o st.sent]
    /\ arg' = [arg EXCEPT !.tiles = Tail(@)]
    /\ UNCHANGED << fn, srvVars >>

\* The end of a zoom level without the execute() of line 105: what is queued
\* stays queued.
LoopEndUnflushed ==
    /\ fn = "precompute_all_tiles"
    /\ arg.pc = "loop"
    /\ arg.tiles = << >>
    /\ ret' = [ret EXCEPT !.count = 0, !.sent = << >>,
                          !.flushed = @ \o ret.sent,
                          !.total = @ + ret.count]
    /\ arg' = IF arg.zoom = ZMax THEN [arg EXCEPT !.pc = "returned"]
              ELSE [arg EXCEPT !.zoom = @ + 1, !.tiles = tiles_dict(arg.df, arg.zoom + 1)]
    /\ UNCHANGED << fn, srvVars >>

\* precompute_all_tiles, lines 105-111 and 60-92: the execute() that ends a
\* zoom level, then the next level or the return.
LoopEnd ==
    /\ fn = "precompute_all_tiles"
    /\ arg.pc = "loop"
    /\ arg.tiles = << >>
    /\ ret' = [ret EXCEPT !.pipe = << >>, !.count = 0, !.sent = << >>,
                          !.flushed = @ \o ret.sent \o ret.pipe,
                          !.total = @ + ret.count]
    /\ arg' = IF arg.zoom = ZMax THEN [arg EXCEPT !.pc = "returned"]
              ELSE [arg EXCEPT !.zoom = @ + 1, !.tiles = tiles_dict(arg.df, arg.zoom + 1)]
    /\ UNCHANGED << fn, srvVars >>

\* precompute_all_tiles on its own, turn by turn of its loops, every
\* execute() succeeding.
NextPipeline ==
    \/ LoopBegin
    \/ LoopStep
    \/ LoopEnd

NextFn ==
    \/ CallPerformClustering
    \/ CallBoundsToTiles

\* The pure functions on their own: the process has loaded nothing.
InitHarness ==
    /\ Init
    /\ db = << >>

SpecFn == InitHarness /\ [][NextFn]_vars

SpecPipeline == InitHarness /\ [][NextPipeline]_vars

\* One serving process and its concurrent request handlers, one request each;
\* the threads started by lifespan() have not run yet.
NextCallers ==
    \/ LifespanLoad(Server)
    \/ LifespanStartPrewarm(Server)
    \/ LifespanStartPrecompute(Server)
    \/ \E c \in Callers : TileGet(c)
    \/ \E c \in Callers : TileCompute(c)
    \/ \E c \in Callers : TileStore(c)
    \/ \E c \in Callers : MarkersGet(c)
    \/ \E c \in Callers : MarkersMget(c)
    \/ \E c \in Callers : MarkersCompute(c)
    \/ \E c \in Callers : MarkersStore(c)
    \/ \E c \in Callers : MarkersViewport(c)

SpecCallers == Init /\ [][NextCallers]_vars

\* One process from its start: the supervisor and the two background threads
\* it starts, before any request.
Next ==
    \/ LifespanLoad(Server)
    \/ LifespanStartPrewarm(Server)
    \/ LifespanStartPrecompute(Server)
    \/ PrewarmStart(Server)
    \/ PrewarmGet(Server)
    \/ PrewarmSet(Server)
    \/ BgStart(Server)
    \/ BgEnter(Server)
    \/ PrecomputeZoom(Server)
    \/ BgCompleted(Server)
    \/ BgExcept(Server)
    \/ BgFinally(Server)

Spec == Init /\ [][Next]_vars

\* The steps of the precompute thread of a process.
BackgroundPrecompute(p) ==
    \/ BgStart(p)
    \/ BgEnter(p)
    \/ PrecomputeZoom(p)
    \/ BgCompleted(p)
    \/ BgExcept(p)
    \/ BgFinally(p)

\* The same process with a precompute thread that is scheduled as long as it
\* has a step to take: every call it makes returns or raises (the cache
\* client has a socket timeout, cache.py line 49).
\* The same start on an empty table or on a table of one row.
InitLive == InitWith({ << >>, << Row(1, Paris) >> })

SpecLive == InitLive /\ [][Next]_vars /\ WF_vars(BackgroundPrecompute(Server))

\* The client whose requests follow one another.
Client == 1

\* One process serving a client that sends its requests one after the other
\* while the precompute thread runs; the pre-warm thread has not run yet.
NextClient ==
    \/ LifespanLoad(Server)
    \/ LifespanStartPrewarm(Server)
    \/ LifespanStartPrecompute(Server)
    \/ BgStart(Server)
    \/ BgEnter(Server)
    \/ PrecomputeZoom(Server)
    \/ BgCompleted(Server)
    \/ BgExcept(Server)
    \/ BgFinally(Server)
    \/ TileGet(Client)
    \/ TileCompute(Client)
    \/ TileStore(Client)
    \/ MarkersGet(Client)
    \/ MarkersMget(Client)
    \/ MarkersCompute(Client)
    \/ MarkersStore(Client)
    \/ MarkersViewport(Client)
    \/ Return(Client)

SpecClient == Init /\ [][NextClient]_vars

\* One process serving a client that sends its requests one after the other,
\* before either background thread has written to the cache: every key of the
\* cache comes from a handler.
NextServe ==
    \/ LifespanLoad(Server)
    \/ LifespanStartPrewarm(Server)
    \/ LifespanStartPrecompute(Server)
    \/ TileGet(Client)
    \/ TileCompute(Client)
    \/ TileStore(Client)
    \/ MarkersGet(Client)
    \/ MarkersMget(Client)
    \/ MarkersCompute(Client)
    \/ MarkersStore(Client)
    \/ MarkersViewport(Client)
    \/ Return(Client)

SpecServe == Init /\ [][NextServe]_vars

\* The processes of a deployment, each starting its precompute against the
\* one cache; their pre-warm threads and requests are left out.
NextPrecompute ==
    \/ \E p \in Procs : LifespanLoad(p)
    \/ \E p \in Procs : LifespanStartPrewarm(p)
    \/ \E p \in Procs : LifespanStartPrecompute(p)
    \/ \E p \in Procs : BgStart(p)
    \/ \E p \in Procs : BgEnter(p)
    \/ \E p \in Procs : PrecomputeZoom(p)
    \/ \E p \in Procs : BgCompleted(p)
    \/ \E p \in Procs : BgExcept(p)
    \/ \E p \in Procs : BgFinally(p)

SpecPrecompute == Init /\ [][NextPrecompute]_vars

InBox(p, b) ==
    /\ p.latitude >= b[1]
    /\ p.latitude <= b[2]
    /\ p.longitude >= b[3]
    /\ p.longitude <= b[4]

\* Every point of `store` inside `box` lies in the bbox of a tile of `tiles`.
Covered(store, box, tiles, zoom) ==
    \A i \in 1..Len(store) :
        InBox(store[i], box) =>
            \E k \in 1..Len(tiles) :
                InBox(store[i], tile_to_bbox(tiles[k][1], tiles[k][2], zoom))

\* Number of tiles of the inclusive rectangle between the corner tiles.
RectangleSize(box, zoom) ==
    LET lo == lat_lon_to_tile(box[1], box[3], zoom)
        hi == lat_lon_to_tile(box[2], box[4], zoom)
    IN  (Max(lo[1], hi[1]) - Min(lo[1], hi[1]) + 1) * (Max(lo[2], hi[2]) - Min(lo[2], hi[2]) + 1)

\* C6 (as stated): for every query bbox and zoom 6..14, every store point
\* inside the bbox lies inside the bbox of a tile of bounds_to_tiles.
CoverComplete ==
    fn = "bounds_to_tiles" => Covered(arg.store, arg.bbox, ret, arg.zoom)

\* C6 (amended): the cover is complete for query bboxes inside the Mercator
\* square (|lat| <= 85.0511, -180 <= lon <= 180) whose inclusive tile
\* rectangle has at most 200 tiles.
CoverCompleteWithinLimit ==
    ( /\ fn = "bounds_to_tiles"
      /\ arg.bbox[1] >= 0 /\ arg.bbox[2] <= World
      /\ arg.bbox[3] >= 0 /\ arg.bbox[4] <= World
      /\ RectangleSize(arg.bbox, arg.zoom) <= TileLimit )
        => Covered(arg.store, arg.bbox, ret, arg.zoom)

\* C6 witness: a cover of several tiles, within the limit, of a rectangle
\* that holds a store point lying on a tile edge.
CoverCompleteWitness ==
    /\ fn = "bounds_to_tiles"
    /\ arg.bbox = BoxEdge
    /\ Len(ret) > 1 /\ RectangleSize(arg.bbox, arg.zoom) <= TileLimit
    /\ \E i \in 1..Len(arg.store) :
          /\ InBox(arg.store[i], arg.bbox)
          /\ arg.store[i].longitude = arg.bbox[4]

(***************************************************************************)
(* Properties of the request handlers                                      *)
(***************************************************************************)
IsTile(c) == h[c].req.op = "get_tile"
IsMarkers(c) == h[c].req.op = "get_markers"

\* The tile keys for which the request in progress of caller c has run
\* compute_tile_on_fly after missing them in the cache.
Invoked(c) ==
    IF h[c].pc = "tile_store"
    THEN { TileKey(h[c].req.z, h[c].req.x, h[c].req.y) }
    ELSE IF h[c].pc = "mk_store"
    THEN { TileKey(Clamp(h[c].req.zoom), h[c].tiles[h[c].missing[k]][1], h[c].tiles[h[c].missing[k]][2]) :
             k \in 1..Len(h[c].missing) }
    ELSE { }

\* C1: concurrent callers of one process that miss the same tile key do not
\* each run the clusterer for it: no two requests in progress have both
\* invoked compute_tile_on_fly for the same key, whether they came through
\* get_tile or through the fan-out of get_markers.
Singleflight ==
    \A c1, c2 \in Callers : c1 # c2 => Invoked(c1) \cap Invoked(c2) = { }

\* C5: with every cache read absent or failed (and no compute failing), the
\* response of get_markers accounts for exactly the store points inside the
\* requested closed bbox: none outside is counted, none inside is missing.
DegradationEquivalence ==
    \A c \in Callers :
        ( /\ h[c].pc = "done" /\ IsMarkers(c)
          /\ h[c].hits = 0 /\ h[c].failed = 0 )
            => LET box == h[c].req.box
               IN  CountSum(h[c].ret) = Rows(filter_bbox(Store, box[1], box[2], box[3], box[4]))

\* C7: whatever cache operation and whatever tile compute fails, get_markers
\* and get_tile end with a list and raise nothing to their caller.
NeverRaises ==
    \A c \in Callers : h[c].outcome # "exception"

\* What a get_markers response holds when the compute of missing tile
\* number `failed` raised and that tile alone contributes nothing.
IsolatedResponse(c) ==
    LET req_z == Clamp(h[c].req.zoom)
        tiles == h[c].tiles
        missing == h[c].missing
    IN  h[c].hit_results \o
        Concat([k \in 1..Len(missing) |->
                    IF k = h[c].failed THEN << >>
                    ELSE compute_tile_on_fly(Store, tiles[missing[k]][1], tiles[missing[k]][2], req_z)])

\* C8: when the compute of one missing tile raises, the response still holds
\* the clusters of the cache hits and of every other missing tile.
PerTileIsolation ==
    \A c \in Callers :
        (h[c].pc = "done" /\ IsMarkers(c) /\ h[c].failed # 0)
            => h[c].ret = IsolatedResponse(c)

\* C9: get_markers writes its viewport key only when every tile of its tile
\* list contributed, by a cache hit or by a successful compute.
ViewportOnlyComplete ==
    \A c \in Callers : h[c].wrote_view => h[c].failed = 0

\* C4: a get_tile call that follows at once a get_tile call of the same key
\* that found the key cold returns the cluster sequence that call returned,
\* whatever the precomputer wrote under the key in between.
CacheCoherence ==
    \A c \in Callers :
        ( /\ h[c].pc = "done" /\ IsTile(c) /\ h[c].outcome = "ok"
          /\ h[c].after.outcome = "ok" /\ h[c].after.cold
          /\ h[c].after.key = TileKey(h[c].req.z, h[c].req.x, h[c].req.y) )
            => h[c].ret = h[c].after.ret

\* C10: every tile entry of the cache was written with a TTL of 30 days and
\* every viewport entry with a TTL of 300 s, whoever wrote it.
TtlOfEntries ==
    \A k \in DOMAIN cache :
        cache[k].ttl = IF k[1] = "tile" THEN 2592000 ELSE 300

(***************************************************************************)
(* Properties of the precomputer                                           *)
(***************************************************************************)
\* The runs of precompute_all_tiles in progress that have sent tile entries
\* to the cache.
Writers ==
    { p \in Procs : PRECOMPUTE_STATUS[p].running /\ pre[p].stored > 0 }

\* C2: of the precompute runs in progress at one time against the one cache,
\* at most one writes tile entries; the others find the lease held and leave
\* without writing a tile key.
PrecomputeMutualExclusion == Cardinality(Writers) <= 1

(***************************************************************************)
(* Properties of the cache contents                                        *)
(***************************************************************************)
\* C11: every tile key of the cache is tile:{z}:{x}:{y} with 6 <= z <= 14 and
\* 0 <= x, y < 2^z, whatever path parameters and zooms the requests carried.
TileKeyDomain ==
    \A k \in DOMAIN cache :
        k[1] = "tile" =>
            /\ k[2] >= 6 /\ k[2] <= 14
            /\ k[3] >= 0 /\ k[3] < 2^k[2]
            /\ k[4] >= 0 /\ k[4] < 2^k[2]

\* C12: once a precompute run has processed every zoom level and its status
\* reports completed, the cache holds the done marker h3:precompute:done.
DoneMarkerSet ==
    \A p \in Procs :
        (PRECOMPUTE_STATUS[p].completed /\ pre[p].zoom = ZMax)
            => << "h3:precompute:done" >> \in DOMAIN cache

\* C13: at zoom >= 14 perform_clustering returns the first min(|V|, 500) rows
\* of a non-empty V in input order, each as a record with count = 1.
IndividualPoints ==
    (fn = "perform_clustering" /\ arg.zoom >= 14 /\ arg.df # << >>) =>
        /\ Rows(ret) = Min(Rows(arg.df), HeadRows)
        /\ \A i \in 1..Len(ret) :
              /\ ret[i].id = arg.df[i].id
              /\ "count" \in DOMAIN ret[i]
              /\ ret[i].count = 1

(***************************************************************************)
(* Properties of the viewport handler                                      *)
(***************************************************************************)
\* C14: a get_markers request with min_lat > max_lat, min_lon > max_lon or a
\* coordinate out of range is rejected (HTTP 400) before any cache read, tile
\* compute or cache write: it is never in progress and it ends rejected.
InvalidQueryRejected ==
    \A c \in Callers :
        LET box == h[c].req.box IN
        ( /\ IsMarkers(c)
          /\ \/ box[1] > box[2] \/ box[3] > box[4]
             \/ box[3] < 0 \/ box[4] > World )
            => (h[c].pc = "done" /\ h[c].outcome = "rejected")

\* C19: in a get_markers response assembled from computed tiles the counts
\* add up to no more than the number of store points the fetched tiles
\* cover, a point on an edge shared by two fetched tiles being one point.
NoDoubleCount ==
    \A c \in Callers :
        ( /\ h[c].pc = "done" /\ IsMarkers(c)
          /\ h[c].hits = 0 /\ h[c].failed = 0 )
            => LET req_z == Clamp(h[c].req.zoom)
                   tiles == h[c].tiles
                   covered == SelectSeq(Store, LAMBDA b :
                                \E k \in 1..Len(tiles) :
                                    InBox(b, tile_to_bbox(tiles[k][1], tiles[k][2], req_z)))
               IN  CountSum(h[c].ret) <= Rows(covered)

(***************************************************************************)
(* Properties of the two tile producers                                    *)
(***************************************************************************)
\* The cells of a cluster list with their counts; the rows themselves for the
\* plain rows of zoom >= 14.
Cells(result) ==
    { IF "count" \in DOMAIN result[i]
      THEN << result[i].lat_idx, result[i].lon_idx, result[i].count >>
      ELSE << result[i].id, result[i].rows >> : i \in 1..Len(result) }

\* C18: every tile entry the precomputer stored has the cells and the
\* per-cell counts compute_tile_on_fly returns for that tile.
ProducersConsistent ==
    \A k \in DOMAIN cache :
        (k[1] = "tile" /\ cache[k].ttl = PrecomputeTtl)
            => Cells(loads(cache[k].value)) = Cells(compute_tile_on_fly(db, k[3], k[4], k[2]))

(***************************************************************************)
(* Properties of the dataset load                                          *)
(***************************************************************************)
\* C15: a process whose dataset load failed at startup never serves, starts
\* neither the pre-warm thread nor the precompute thread, writes no tile key
\* and never reports its precompute running.
LoadFailureFatal ==
    \A p \in Procs :
        (db_loads[p] > 0 /\ PROPERTIES_DF[p] = None) =>
            /\ life[p] = "failed"
            /\ warm[p].pc = "off"
            /\ pre[p].pc = "off"
            /\ ~PRECOMPUTE_STATUS[p].running
            /\ DOMAIN cache = { }

\* C15 witness: the load of the process has run and failed.
LoadFailureFatalWitness ==
    /\ db_loads[Server] = 1
    /\ PROPERTIES_DF[Server] = None
    /\ life[Server] = "failed"

\* C16: load_db_to_memory_sync runs at most once in a process, and exactly
\* once in a process that accepts requests, whose store is then assigned:
\* the pre-warm thread, the precompute thread and the compute tasks all find
\* PROPERTIES_DF set and never load again.
LoaderRunsOnce ==
    \A p \in Procs :
        /\ db_loads[p] <= 1
        /\ life[p] \in { "loaded", "prewarming", "serving" } =>
              (db_loads[p] = 1 /\ PROPERTIES_DF[p] = Some(db))

\* C16 witness: both background threads of a serving process have passed
\* their load check and run to their end, tiles having been computed.
LoaderRunsOnceWitness ==
    /\ life[Server] = "serving"
    /\ warm[Server].pc = "done"
    /\ pre[Server].pc = "done"
    /\ PRECOMPUTE_STATUS[Server].completed
    /\ DOMAIN cache # { }
    /\ db_loads[Server] = 1

(***************************************************************************)
(* Properties of precompute_all_tiles                                      *)
(***************************************************************************)
\* The records of two values are the same, each as many times, whatever
\* their order (group_by does not promise the order of its groups).
SameRecords(a, b) ==
    \A r \in { a[i] : i \in DOMAIN a } \cup { b[i] : i \in DOMAIN b } :
        Cardinality({ i \in DOMAIN a : a[i] = r }) = Cardinality({ i \in DOMAIN b : b[i] = r })

EmptyNeverCached ==
    /\ \A k \in DOMAIN cache : loads(cache[k].value) # << >>
    /\ \A c \in Callers :
          (h[c].pc = "done" /\ h[c].outcome = "ok" /\ h[c].ret = << >>) =>
              /\ h[c].hits = 0
              /\ IsTile(c) => h[c].cold
              /\ IsMarkers(c) => ~h[c].wrote_view

\* C20 witness: get_tile has answered [] for a tile it had already answered
\* [] for in the previous request: it computed the tile again and the key is
\* still absent.
EmptyNeverCachedWitness ==
    /\ h[Client].pc = "done"
    /\ IsTile(Client)
    /\ h[Client].outcome = "ok"
    /\ h[Client].ret = << >>
    /\ h[Client].cold
    /\ h[Client].after.outcome = "ok"
    /\ h[Client].after.cold
    /\ h[Client].after.ret = << >>
    /\ h[Client].after.key = TileKey(h[Client].req.z, h[Client].req.x, h[Client].req.y)
    /\ h[Client].after.key \notin DOMAIN cache

(***************************************************************************)
(* Properties of the startup                                               *)
(***************************************************************************)
\* The table is assigned in every process where a thread or a handler has
\* taken a step.
AssignedBeforeUse ==
    /\ \A p \in Procs :
          (warm[p].pc # "off" \/ pre[p].pc # "off" \/ life[p] = "serving") =>
              PROPERTIES_DF[p] # None
    /\ (\E c \in Callers : h[c].pc # "idle") => PROPERTIES_DF[Server] # None

PipelineFlushed ==
    fn = "precompute_all_tiles" =>
        /\ Len(ret.pipe) <= FlushEvery
        /\ Len(ret.sent) + Len(ret.pipe) = ret.count
        /\ ret.count = 0 => ret.pipe = << >>
        /\ arg.pc = "returned" => (ret.pipe = << >> /\ Len(ret.flushed) = ret.total)

\* C22 witness: a run that stored more than 1000 tiles at one zoom level has
\* returned.
PipelineFlushedWitness ==
    /\ fn = "precompute_all_tiles"
    /\ arg.pc = "returned"
    /\ ret.total > FlushEvery + 1
    /\ \E z \in ZMin..ZMax :
          Cardinality({ i \in DOMAIN ret.flushed : ret.flushed[i].key[2] = z }) > FlushEvery

(***************************************************************************)
(* Properties of the grid of perform_clustering                            *)
(***************************************************************************)
\* C23: below zoom 14, perform_clustering on the rows inside the closed bbox
\* of a tile returns at most resolution^2 records, and the lat_idx and
\* lon_idx of each lie in 0..resolution-1, also for a row on the north or
\* east edge of the tile.
ClustersPerTileBound ==
    (fn = "perform_clustering" /\ arg.zoom < ZMax) =>
        LET resolution == Resolution(arg.zoom) IN
        /\ Len(ret) <= resolution * resolution
        /\ \A k \in 1..Len(ret) :
              /\ ret[k].lat_idx \in 0..(resolution - 1)
              /\ ret[k].lon_idx \in 0..(resolution - 1)

(***************************************************************************)
(* Properties of the pre-warm thread                                       *)
(***************************************************************************)
\* C24: the setex of the pre-warm thread finds its key absent: no step of
\* the thread replaces an entry of the cache, in particular not one the
\* precomputer stored with its 30-day TTL after the thread looked the key up.
PrewarmNeverOverwrites ==
    [][\A p \in Procs :
          (warm[p].pc = "set" /\ warm'[p] # warm[p]) =>
              LET t == warm[p].todo[1]
                  key == TileKey(t[1], t[2], t[3])
              IN  key \in DOMAIN cache => cache'[key] = cache[key]]_vars

(***************************************************************************)
(* Properties of PRECOMPUTE_STATUS                                         *)
(***************************************************************************)
\* C25: in every state get_status can read, completed implies not running
\* and no error; running and completed are never both true.
StatusConsistent ==
    \A p \in Procs :
        PRECOMPUTE_STATUS[p].completed =>
            (~PRECOMPUTE_STATUS[p].running /\ PRECOMPUTE_STATUS[p].error = None)

\* C26: a precompute thread that has set running sets it back to FALSE,
\* whether precompute_all_tiles returns, returns at once on an empty table
\* or raises; and when the thread has ended exactly one of completed and
\* error is set.
StatusLeavesRunning ==
    /\ \A p \in Procs :
          PRECOMPUTE_STATUS[p].running ~> ~PRECOMPUTE_STATUS[p].running
    /\ [](\A p \in Procs :
            (pre[p].pc = "done" /\ ~PRECOMPUTE_STATUS[p].running) =>
                (PRECOMPUTE_STATUS[p].completed <=> PRECOMPUTE_STATUS[p].error = None))

\* C26 witness: a run that stored the tiles of some zoom levels was ended by
\* an execute() that raised, and the thread has set running back to FALSE.
StatusLeavesRunningWitness ==
    /\ pre[Server].pc = "done"
    /\ ~PRECOMPUTE_STATUS[Server].running
    /\ PRECOMPUTE_STATUS[Server].error # None
    /\ ~PRECOMPUTE_STATUS[Server].completed
    /\ pre[Server].stored > 0

=============================================================================
